---- MODULE Spec2Model ----
(***************************************************************************)
(* State-machine model of the react-vite-boilerplate CLI:                  *)
(*   - lib/validators.js      (validateProjectName, isSafeToRemove,        *)
(*                             validateTargetDirectory)                    *)
(*   - lib/error-handler.js   (RollbackManager, createProjectRollback,     *)
(*                             handleError, withErrorHandling)             *)
(*   - lib/package-managers.js (detection and preference)                  *)
(*   - bin/cli.js             (program.action, createProject)              *)
(*                                                                         *)
(* Strings are sequences of one-character strings, so that the regular     *)
(* expressions of the validators are computed character by character.      *)
(* A JavaScript value is a record [t |-> type, s |-> characters].          *)
(* An absolute path is the sequence of its segments.                       *)
(***************************************************************************)
EXTENDS Integers, Sequences, FiniteSets, TLC

\* ------------------------------------------------------------------------
\* Characters and strings
\* ------------------------------------------------------------------------

LowerSeq == << "a","b","c","d","e","f","g","h","i","j","k","l","m",
               "n","o","p","q","r","s","t","u","v","w","x","y","z" >>

UpperSeq == << "A","B","C","D","E","F","G","H","I","J","K","L","M",
               "N","O","P","Q","R","S","T","U","V","W","X","Y","Z" >>

Lower == { LowerSeq[i] : i \in DOMAIN LowerSeq }

Upper == { UpperSeq[i] : i \in DOMAIN UpperSeq }

Digit == { "0","1","2","3","4","5","6","7","8","9" }

Whitespace == { " ", "\t", "\n" }

\* String.prototype.toLowerCase, one character
ToLowerChar(c) ==
    IF c \in Upper
    THEN LowerSeq[CHOOSE i \in DOMAIN UpperSeq : UpperSeq[i] = c]
    ELSE c

ToLowerCaseMissing(s) == s

\* String.prototype.toLowerCase
ToLowerCase(s) == [i \in DOMAIN s |-> ToLowerChar(s[i])]

\* String.prototype.startsWith, for a one-character prefix
StartsWith(s, c) == Len(s) >= 1 /\ s[1] = c

\* String.prototype.includes, for a substring
Includes(s, sub) ==
    \E i \in 0..(Len(s) - Len(sub)) :
        \A j \in 1..Len(sub) : s[i + j] = sub[j]

\* A JavaScript string value
Str(s) == [t |-> "string", s |-> s]

\* ------------------------------------------------------------------------
\* lib/validators.js
\* ------------------------------------------------------------------------

RESERVED_NAMES ==
    { <<"n","o","d","e","_","m","o","d","u","l","e","s">>,
      <<"p","a","c","k","a","g","e">>,
      <<"p","a","c","k","a","g","e",".","j","s","o","n">>,
      <<"p","a","c","k","a","g","e","-","l","o","c","k",".","j","s","o","n">>,
      <<"y","a","r","n",".","l","o","c","k">>,
      <<"p","n","p","m","-","l","o","c","k",".","y","a","m","l">>,
      <<"r","e","a","c","t">>, <<"v","i","t","e">>,
      <<"t","y","p","e","s","c","r","i","p","t">>,
      <<"j","a","v","a","s","c","r","i","p","t">>,
      <<"t","e","s","t">>, <<"s","r","c">>, <<"p","u","b","l","i","c">>,
      <<"b","u","i","l","d">>, <<"d","i","s","t">>,
      <<"c","o","n">>, <<"p","r","n">>, <<"a","u","x">>, <<"n","u","l">> }
    \cup { <<"c","o","m",d>> : d \in Digit \ {"0"} }
    \cup { <<"l","p","t",d>> : d \in Digit \ {"0"} }

\* the limit in name.length > 214
MaxNameLength == 214

TooLongFromLimit(s) == Len(s) >= MaxNameLength

\* name.length > 214
TooLong(s) == Len(s) > MaxNameLength

InvalidCharsWithoutTilde == { ")", "(", "'", "!", "*" }

\* /[~)('!*]/
InvalidChars == { "~", ")", "(", "'", "!", "*" }

ScopeFirstAnyOfRest == Lower \cup Digit \cup { "-", ".", "_", "~" }

\* [a-z0-9-~] : first character of a scope or package segment
ScopeFirst == Lower \cup Digit \cup { "-", "~" }

\* [a-z0-9-._~] : the other characters of a scope or package segment
ScopeRest == Lower \cup Digit \cup { "-", ".", "_", "~" }

\* [a-z0-9-~][a-z0-9-._~]*
ScopeSegment(s) ==
    /\ Len(s) >= 1
    /\ s[1] \in ScopeFirst
    /\ \A i \in 2..Len(s) : s[i] \in ScopeRest

\* /^@[a-z0-9-~][a-z0-9-._~]*\/[a-z0-9-~][a-z0-9-._~]*$/
scopePattern(s) ==
    /\ StartsWith(s, "@")
    /\ \E k \in 2..Len(s) :
          /\ s[k] = "/"
          /\ ScopeSegment(SubSeq(s, 2, k - 1))
          /\ ScopeSegment(SubSeq(s, k + 1, Len(s)))

validPatternCaseSensitive(s) ==
    /\ Len(s) >= 1
    /\ s[1] \in Lower \cup Digit
    /\ \A i \in 2..Len(s) : s[i] \in Lower \cup Digit \cup { "-", "_", "." }

\* /^[a-z0-9][a-z0-9\-_.]*$/i
validPattern(s) ==
    /\ Len(s) >= 1
    /\ s[1] \in Lower \cup Upper \cup Digit
    /\ \A i \in 2..Len(s) : s[i] \in Lower \cup Upper \cup Digit \cup { "-", "_", "." }

InvalidWithoutError(msg) == [valid |-> FALSE]

\* { valid: false, error: msg }
Invalid(msg) == [valid |-> FALSE, error |-> msg]

Valid == [valid |-> TRUE]

\* validateProjectName(name): the checks in the order of the source
validateProjectName(name) ==
    IF name.t # "string" \/ Len(name.s) = 0
    THEN Invalid("Project name is required")
    ELSE IF \A i \in DOMAIN name.s : name.s[i] \in Whitespace
    THEN Invalid("Project name cannot be empty")
    ELSE IF TooLong(name.s)
    THEN Invalid("Project name must be less than 214 characters")
    ELSE IF StartsWith(name.s, ".") \/ StartsWith(name.s, "_")
    THEN Invalid("Project name cannot start with . or _")
    ELSE IF \E i \in DOMAIN name.s : name.s[i] \in InvalidChars
    THEN Invalid("Project name contains invalid characters: ~)('!*")
    ELSE IF StartsWith(name.s, "@") /\ ~scopePattern(name.s)
    THEN Invalid("Invalid scoped package name format")
    ELSE IF ~StartsWith(name.s, "@") /\ ~validPattern(name.s)
    THEN Invalid("Project name can only contain letters, numbers, hyphens, underscores, and dots. Must start with a letter or number.")
    ELSE IF ~StartsWith(name.s, "@") /\ ToLowerCase(name.s) \in RESERVED_NAMES
    THEN Invalid("is a reserved name and cannot be used")
    ELSE Valid

\* ------------------------------------------------------------------------
\* State
\* ------------------------------------------------------------------------

VARIABLES
    \* RollbackManager (lib/error-handler.js)
    actions,        \* this.actions: sequence of registered actions
    completed,      \* this.completed
    calls,          \* one record per execute() call: its position in the loop
    trace,          \* the action invocations, started and finished, in order
    markCalled,     \* markCompleted() has been called
    lateCalls,      \* the execute() calls that began after markCompleted()
    \* the process and its environment (bin/cli.js)
    pc,             \* position of the run in program.action / createProject
    argv,           \* the project-name argument and the options
    fs,             \* the filesystem: existing directory |-> its file names
    fs0,            \* the filesystem when the process started
    unwritable,     \* directories the process may not write into
    unreadable,     \* directories the process may not list
    offline,        \* isOfflineMode()
    packageManager, \* the variable packageManager of createProject
    available,      \* availableManagers, as far as probed
    probed,         \* number of registered managers probed so far
    error,          \* the error thrown out of createProject, if any
    log,            \* what the run did and printed, in order
    exitCode,       \* the exit status once the process has ended, -1 before
    \* one call of a library function on its own
    call            \* the function, its arguments and, once returned, its result

rmVars == << actions, completed, calls, trace, markCalled, lateCalls >>

cliVars == << call, pc, argv, fs, fs0, unwritable, unreadable, offline,
              packageManager, available, probed, error, log, exitCode >>

vars == << actions, completed, calls, trace, markCalled, lateCalls, call,
           pc, argv, fs, fs0, unwritable, unreadable, offline,
           packageManager, available, probed, error, log, exitCode >>

\* ------------------------------------------------------------------------
\* Paths (node:path) and the filesystem (fs-extra)
\* ------------------------------------------------------------------------

\* process.env.HOME
Home == << <<"h">> >>

\* process.cwd()
Cwd == << <<"h">>, <<"w">> >>

Root == << >>

\* String.prototype.split('/')
RECURSIVE Split(_)
Split(s) ==
    IF \A i \in DOMAIN s : s[i] # "/"
    THEN << s >>
    ELSE LET k == CHOOSE i \in DOMAIN s :
                      s[i] = "/" /\ \A j \in 1..(i - 1) : s[j] # "/"
         IN  << SubSeq(s, 1, k - 1) >> \o Split(SubSeq(s, k + 1, Len(s)))

\* The normalisation of path.resolve: "" and "." are dropped, ".." pops
RECURSIVE Normalize(_, _)
Normalize(base, segs) ==
    IF segs = << >> THEN base
    ELSE LET h == Head(segs)
             b == IF h = << >> \/ h = << "." >> THEN base
                  ELSE IF h = << ".", "." >>
                       THEN (IF base = << >> THEN base
                             ELSE SubSeq(base, 1, Len(base) - 1))
                  ELSE Append(base, h)
         IN  Normalize(b, Tail(segs))

\* path.resolve(from, to), from an absolute path
resolve(from, to) ==
    IF StartsWith(to, "/")
    THEN Normalize(Root, Split(to))
    ELSE Normalize(from, Split(to))

\* path.dirname of an absolute path
dirname(p) == IF p = Root THEN Root ELSE SubSeq(p, 1, Len(p) - 1)

IsPrefix(p, q) == Len(p) <= Len(q) /\ SubSeq(q, 1, Len(p)) = p

\* fs.existsSync
existsSync(f, p) == p \in DOMAIN f

HasEntriesWheneverExists(f, p) == TRUE

\* fs.readdirSync(p).length > 0
HasEntries(f, p) ==
    \/ f[p] # {}
    \/ \E q \in DOMAIN f : dirname(q) = p /\ q # p

\* fs.accessSync(p, W_OK) does not throw
Writable(p) == existsSync(fs, p) /\ p \notin unwritable

\* fs.remove(p) rejects: the entry cannot be unlinked from its parent
RemoveFails(f, p) == existsSync(f, p) /\ (p = Root \/ dirname(p) \in unwritable)

\* fs.remove(p): the filesystem afterwards. What lies below p is removed;
\* p itself stays when it cannot be unlinked from its parent.
Remove(f, p) ==
    LET gone == { q \in DOMAIN f :
                     IsPrefix(p, q) /\ (q # p \/ ~RemoveFails(f, p)) }
    IN  [q \in DOMAIN f \ gone |->
            IF q = p THEN {} ELSE f[q]]

\* fs.ensureDir(p): p and its missing ancestors are created
EnsureDir(f, p) ==
    LET made == { SubSeq(p, 1, n) : n \in 0..Len(p) } \ DOMAIN f
    IN  [q \in DOMAIN f \cup made |-> IF q \in DOMAIN f THEN f[q] ELSE {}]

\* Files of p become f[p] \cup names
AddFiles(f, p, names) == [f EXCEPT ![p] = @ \cup names]

\* ------------------------------------------------------------------------
\* lib/validators.js: target directory
\* ------------------------------------------------------------------------

systemPaths ==
    { Root, Home, Cwd,
      << <<"u","s","r">> >>,
      << <<"e","t","c">> >>,
      << <<"v","a","r">> >>,
      << <<"S","y","s","t","e","m">> >>,
      << <<"W","i","n","d","o","w","s">> >>,
      << <<"P","r","o","g","r","a","m"," ","F","i","l","e","s">> >>,
      << <<"P","r","o","g","r","a","m"," ","F","i","l","e","s"," ","(","x","8","6",")">> >> }

isSafeToRemoveAlsoBelow(p) ==
    /\ \A q \in systemPaths : q = Root \/ ~IsPrefix(q, p)
    /\ p # Root
    /\ \A i \in DOMAIN p : ~Includes(p[i], << ".", "." >>)
    /\ \A i \in DOMAIN p : ~Includes(p[i], << "~" >>)

\* isSafeToRemove(dirPath), on a resolved path
isSafeToRemove(p) ==
    /\ p \notin systemPaths
    /\ \A i \in DOMAIN p : ~Includes(p[i], << ".", "." >>)
    /\ \A i \in DOMAIN p : ~Includes(p[i], << "~" >>)

\* validateTargetDirectory(targetPath), on a resolved path
validateTargetDirectory(p) ==
    IF ~isSafeToRemove(p)
    THEN Invalid("Cannot create project in system directory or unsafe location")
    ELSE IF ~Writable(dirname(p))
    THEN Invalid("No write permission to directory")
    ELSE IF existsSync(fs, p) /\ p \in unreadable
    THEN Invalid("Cannot read directory")
    ELSE [valid |-> TRUE,
          warnings |-> IF existsSync(fs, p) /\ HasEntries(fs, p)
                       THEN << "is not empty" >> ELSE << >>]

\* ------------------------------------------------------------------------
\* lib/error-handler.js: RollbackManager
\* ------------------------------------------------------------------------

\* Bound: registered actions of one manager
MaxActions == 3

\* Bound: execute() calls on one manager
MaxCalls == 2

Callers == 1..MaxCalls

\* What a registered function does when it is called:
\*   "ok"      it resolves
\*   "error"   it throws or rejects with a value other than null/undefined
\*   "nullish" it throws or rejects with null or undefined
\*   "rmdir"   the function createProjectRollback registers
Behaviours == { "ok", "error", "nullish" }

Generic(b) == [kind |-> b]

RemoveProjectDirectory(p) == [kind |-> "rmdir", path |-> p]

IdleCall == [pc |-> "idle", n |-> 0, k |-> 0]

\* constructor()
NewManager ==
    /\ actions = << >>
    /\ completed = FALSE
    /\ calls = [c \in Callers |-> IdleCall]
    /\ trace = << >>
    /\ markCalled = FALSE
    /\ lateCalls = {}

addActionResets(a) ==
    /\ actions' = Append(actions, a)
    /\ completed' = FALSE
    /\ UNCHANGED << calls, trace, markCalled, lateCalls >>

\* addAction(action, description)
addAction(a) ==
    /\ actions' = Append(actions, a)
    /\ UNCHANGED << completed, calls, trace, markCalled, lateCalls >>

\* execute() without its guard on this.completed
ExecuteGuardMissing == FALSE

\* if (this.completed) return;
ExecuteGuard == completed

\* The loop running forwards: for (let i = 0; i < this.actions.length; i++)
LoopOrderForward(n) == [k \in 1..n |-> k]

\* for (let i = this.actions.length - 1; i >= 0; i--): the indices in the
\* order the loop visits them (1-based)
LoopOrder(n) == [k \in 1..n |-> n - k + 1]

Started(c, idx) == [ev |-> "start", idx |-> idx, by |-> c]

Finished(c, idx, outcome) == [ev |-> "end", idx |-> idx, by |-> c, outcome |-> outcome]

\* await action(): how the promise of actions[idx] settles
Outcome(a) ==
    IF a.kind = "rmdir"
    THEN (IF existsSync(fs, a.path) /\ RemoveFails(fs, a.path) THEN "error" ELSE "ok")
    ELSE a.kind

EffectNothing(a) == fs

\* What the action does to the filesystem
Effect(a) ==
    IF a.kind = "rmdir" /\ existsSync(fs, a.path) THEN Remove(fs, a.path) ELSE fs

\* catch (error) { ... error.message ... }: reading .message of null or
\* undefined throws a TypeError out of the catch block
CatchThrows(outcome) == outcome = "nullish"

\* execute(), up to its first await: the guard, completed = true, and the
\* call of the last registered action
execute(c) ==
    /\ calls[c].pc = "idle"
    /\ lateCalls' = IF markCalled THEN lateCalls \cup {c} ELSE lateCalls
    /\ UNCHANGED << actions, markCalled >>
    /\ IF ExecuteGuard
       THEN /\ calls' = [calls EXCEPT ![c] = [pc |-> "done", n |-> 0, k |-> 0]]
            /\ UNCHANGED << completed, trace >>
       ELSE /\ completed' = TRUE
            /\ LET n == Len(actions) IN
               IF n = 0
               THEN /\ calls' = [calls EXCEPT ![c] = [pc |-> "done", n |-> 0, k |-> 0]]
                    /\ UNCHANGED trace
               ELSE /\ calls' = [calls EXCEPT ![c] = [pc |-> "await", n |-> n, k |-> 1]]
                    /\ trace' = Append(trace, Started(c, LoopOrder(n)[1]))

\* execute(), resumed when the awaited action has settled: the catch block
\* if it failed, then the next iteration up to its await, or the return
settle(c) ==
    /\ calls[c].pc = "await"
    /\ LET n   == calls[c].n
           k   == calls[c].k
           idx == LoopOrder(n)[k]
           out == Outcome(actions[idx])
           end == Append(trace, Finished(c, idx, out))
       IN  /\ fs' = Effect(actions[idx])
           /\ IF CatchThrows(out)
              THEN /\ calls' = [calls EXCEPT ![c].pc = "threw"]
                   /\ trace' = end
              ELSE IF k < n
              THEN /\ calls' = [calls EXCEPT ![c].k = k + 1]
                   /\ trace' = Append(end, Started(c, LoopOrder(n)[k + 1]))
              ELSE /\ calls' = [calls EXCEPT ![c].pc = "done"]
                   /\ trace' = end
    /\ UNCHANGED << actions, completed, markCalled, lateCalls >>

\* markCompleted() that forgets to set this.completed
markCompletedNoFlag ==
    /\ markCalled' = TRUE
    /\ UNCHANGED << actions, completed, calls, trace, lateCalls >>

\* markCompleted()
markCompleted ==
    /\ completed' = TRUE
    /\ markCalled' = TRUE
    /\ UNCHANGED << actions, calls, trace, lateCalls >>

\* ------------------------------------------------------------------------
\* A RollbackManager used by arbitrary callers
\* ------------------------------------------------------------------------

NoError == [type |-> "none", context |-> {}]

\* No pure function is under examination
NoCall == [fn |-> "none"]

\* No filesystem is looked at
NoFiles ==
    /\ fs = << >>
    /\ fs0 = << >>
    /\ unwritable = {}
    /\ unreadable = {}

\* No command line is running
NoProcess ==
    /\ pc = "off"
    /\ argv = << >>
    /\ offline = FALSE
    /\ packageManager = "null"
    /\ available = << >>
    /\ probed = 0
    /\ error = NoError
    /\ log = << >>
    /\ exitCode = -1

NoRun == NoFiles /\ NoProcess

InitRM == NewManager /\ NoRun /\ call = NoCall

AddAction ==
    /\ Len(actions) < MaxActions
    /\ \E b \in Behaviours : addAction(Generic(b))
    /\ UNCHANGED cliVars

Execute == \E c \in Callers : execute(c) /\ UNCHANGED cliVars

Settle ==
    \E c \in Callers :
        /\ settle(c)
        /\ UNCHANGED << call, pc, argv, fs0, unwritable, unreadable, offline,
                        packageManager, available, probed, error, log, exitCode >>

MarkCompleted == markCompleted /\ UNCHANGED cliVars

NextRM == AddAction \/ Execute \/ Settle \/ MarkCompleted

SpecRM == InitRM /\ [][NextRM]_vars

\* ------------------------------------------------------------------------
\* lib/package-managers.js
\* ------------------------------------------------------------------------

\* PACKAGE_MANAGERS, in the order of Object.keys / Object.entries
PACKAGE_MANAGERS ==
    << [name |-> "npm",  lockFile |-> "package-lock.json"],
       [name |-> "yarn", lockFile |-> "yarn.lock"],
       [name |-> "pnpm", lockFile |-> "pnpm-lock.yaml"],
       [name |-> "bun",  lockFile |-> "bun.lockb"] >>

\* Array.prototype.includes
InSeq(x, s) == \E i \in DOMAIN s : s[i] = x

\* The exit of the check command: status 0, another status, or a spawn error
ProbeOutcomes == { "exit0", "exit1", "spawnError" }

\* Object.keys(PACKAGE_MANAGERS)
Registered == { PACKAGE_MANAGERS[i].name : i \in DOMAIN PACKAGE_MANAGERS }

\* PACKAGE_MANAGERS is an object literal: a property lookup on it also finds
\* what every object inherits from Object.prototype
ObjectPrototypeKeys ==
    { "constructor", "toString", "valueOf", "hasOwnProperty", "__proto__" }

\* const config = PACKAGE_MANAGERS[manager]; if (!config) return false;
\* the lookup yields a truthy value
HasConfig(manager) == manager \in Registered \cup ObjectPrototypeKeys

\* spawn(manager, config.checkCommand, { stdio: 'pipe' }) is called
Spawns(manager) == HasConfig(manager)

\* isPackageManagerAvailable(manager), given how the check command ended:
\* 'close' resolves code === 0, 'error' resolves false
isPackageManagerAvailable(manager, outcome) ==
    /\ HasConfig(manager)
    /\ outcome = "exit0"

\* fs.existsSync(path.join(dir, lockFile))
LockFileExists(f, dir, lockFile) == existsSync(f, dir) /\ lockFile \in f[dir]

LockMatchesIgnoringAvailable(f, dir, avail) ==
    { i \in DOMAIN PACKAGE_MANAGERS :
         LockFileExists(f, dir, PACKAGE_MANAGERS[i].lockFile) }

\* for (const [manager, config] of Object.entries(PACKAGE_MANAGERS)): the
\* registry indices whose lockfile is in dir and whose manager is available
LockMatches(f, dir, avail) ==
    { i \in DOMAIN PACKAGE_MANAGERS :
         /\ LockFileExists(f, dir, PACKAGE_MANAGERS[i].lockFile)
         /\ InSeq(PACKAGE_MANAGERS[i].name, avail) }

Min(S) == CHOOSE x \in S : \A y \in S : x <= y

priorityInRegistryOrder == << "npm", "yarn", "pnpm", "bun" >>

\* const priority = ['pnpm', 'yarn', 'bun', 'npm']
priority == << "pnpm", "yarn", "bun", "npm" >>

getPreferredFirstAvailable(f, projectDir, avail) ==
    LET here   == LockMatches(f, projectDir, avail)
        parent == LockMatches(f, dirname(projectDir), avail)
    IN  IF here # {} THEN PACKAGE_MANAGERS[Min(here)].name
        ELSE IF parent # {} THEN PACKAGE_MANAGERS[Min(parent)].name
        ELSE IF Len(avail) > 0 THEN avail[1]
        ELSE "npm"

getPreferredAlwaysNpm(f, projectDir, avail) == "npm"

\* getPreferredPackageManager(projectDir, available), reading filesystem f
getPreferredPackageManager(f, projectDir, avail) ==
    LET here   == LockMatches(f, projectDir, avail)
        parent == LockMatches(f, dirname(projectDir), avail)
        prio   == { i \in DOMAIN priority : InSeq(priority[i], avail) }
    IN  IF here # {} THEN PACKAGE_MANAGERS[Min(here)].name
        ELSE IF parent # {} THEN PACKAGE_MANAGERS[Min(parent)].name
        ELSE IF prio # {} THEN priority[Min(prio)]
        ELSE IF Len(avail) > 0 /\ avail[1] # "" THEN avail[1]
        ELSE "npm"

\* ------------------------------------------------------------------------
\* bin/cli.js: inputs and the environment of one run
\* ------------------------------------------------------------------------

\* Project-name arguments
ProjectNames ==
    { << "a", "p", "p" >>,            \* a valid name
      << "s", "r", "c" >>,            \* a reserved name
      << "a", "!" >>,                 \* an invalid character
      << "a", ".", ".", "b" >>,       \* valid name, unsafe resolved path
      << "@", "s", "/", "p" >>,       \* a scoped name
      << "." >>,                      \* the current directory
      << ".", "." >>,                 \* its parent
      << "/", "e", "t", "c" >> }      \* an absolute path

\* Values of --pm; "null" when the option is absent
PmOptions == { "null", "npm", "yarn" }

Arguments ==
    [ name : ProjectNames, yes : BOOLEAN, dryRun : BOOLEAN,
      skipInstall : BOOLEAN, skipGit : BOOLEAN, pm : PmOptions ]

\* path.resolve(process.cwd(), projectName)
projectPath == resolve(Cwd, argv.name)

\* The directories that exist whatever the target is
BaseFs(cwdFiles) ==
    ( Root :> {} ) @@ ( Home :> { "package-lock.json" } ) @@ ( Cwd :> cwdFiles )
    @@ ( << <<"e","t","c">> >> :> { "passwd" } )

\* Files of a directory that exists before the run
OldFiles == { "old.txt" }

\* The filesystems a run may start in: the target is absent, an empty
\* directory, or a directory with files; for a scoped name the scope
\* directory is there only when the target is
StartFs(target) ==
    LET bases == { BaseFs(c) : c \in { {}, { "yarn.lock" } } }
    IN  IF target \in DOMAIN BaseFs({})
        THEN bases
        ELSE bases
             \cup { EnsureDir(b, target) : b \in bases }
             \cup { AddFiles(EnsureDir(b, target), target, OldFiles) : b \in bases }

\* The permissions a run may start with
StartPermissions(f, target) ==
    { [nowrite |-> {}, noread |-> {}], [nowrite |-> { Cwd }, noread |-> {}] }
    \cup (IF existsSync(f, target) /\ HasEntries(f, target)
          THEN { [nowrite |-> {}, noread |-> { target }] } ELSE {})

Ev(e, a) == [ev |-> e, arg |-> a]

Logged(e) == \E i \in DOMAIN log : log[i].ev = e

Init ==
    /\ NewManager
    /\ call = NoCall
    /\ pc = "action"
    /\ argv \in Arguments
    /\ fs \in StartFs(resolve(Cwd, argv.name))
    /\ fs0 = fs
    /\ \E perm \in StartPermissions(fs, resolve(Cwd, argv.name)) :
          /\ unwritable = perm.nowrite
          /\ unreadable = perm.noread
    /\ offline \in BOOLEAN
    /\ packageManager = argv.pm
    /\ available = << >>
    /\ probed = 0
    /\ error = NoError
    /\ log = << >>
    /\ exitCode = -1

\* new BoilerplateError(message, type, context)
BoilerplateError(type, context) == [type |-> type, context |-> context]

\* throw inside createProject: withErrorHandling catches it
Throw(e) ==
    /\ error' = e
    /\ pc' = "handleError"

\* program.action: createProjectRollback(path.resolve(process.cwd(),
\* projectName)) registers the removal of the project directory, then
\* createProject is called
ProgramAction ==
    /\ pc = "action"
    /\ addAction(RemoveProjectDirectory(projectPath))
    /\ pc' = "validateName"
    /\ UNCHANGED << call, argv, fs, fs0, unwritable, unreadable, offline,
                    packageManager, available, probed, error, log, exitCode >>

\* Step 1: validate project name
ValidateName ==
    /\ pc = "validateName"
    /\ LET nameValidation == validateProjectName(Str(argv.name)) IN
       IF ~nameValidation.valid
       THEN /\ Throw(BoilerplateError("VALIDATION", {}))
            /\ UNCHANGED log
       ELSE /\ pc' = "validateDir"
            /\ log' = Append(log, Ev("name-valid", << >>))
            /\ UNCHANGED error
    /\ UNCHANGED rmVars
    /\ UNCHANGED << call, argv, fs, fs0, unwritable, unreadable, offline,
                    packageManager, available, probed, exitCode >>

\* Step 2: validate target directory, and show its warnings
ValidateDir ==
    /\ pc = "validateDir"
    /\ LET dirValidation == validateTargetDirectory(projectPath) IN
       IF ~dirValidation.valid
       THEN /\ Throw(BoilerplateError("FILESYSTEM", {}))
            /\ UNCHANGED log
       ELSE /\ pc' = "existing"
            /\ log' = log \o << Ev("dir-valid", << >>) >>
                          \o [i \in DOMAIN dirValidation.warnings |->
                                 Ev("print:warning", dirValidation.warnings[i])]
            /\ UNCHANGED error
    /\ UNCHANGED rmVars
    /\ UNCHANGED << call, argv, fs, fs0, unwritable, unreadable, offline,
                    packageManager, available, probed, exitCode >>

\* The removal without its guard on dryRun
RemoveAlways == TRUE

\* The removal of the existing directory left out
RemoveNever == FALSE

\* if (!dryRun) await fs.remove(targetDir): line 111
RemoveBeforeCreate == ~argv.dryRun

\* Where createProject goes once the existing directory is dealt with
AfterExisting == IF argv.dryRun THEN "dryRun" ELSE "create"

\* Where createProject goes when it may overwrite the existing directory
Overwrite == IF RemoveBeforeCreate THEN "remove" ELSE AfterExisting

\* Step 3: handle existing directory, up to the prompt
HandleExisting ==
    /\ pc = "existing"
    /\ IF existsSync(fs, projectPath)
       THEN IF ~argv.yes
            THEN /\ pc' = "prompt"
                 /\ log' = Append(log, Ev("prompt", << >>))
            ELSE /\ pc' = Overwrite
                 /\ UNCHANGED log
       ELSE /\ pc' = AfterExisting
            /\ UNCHANGED log
    /\ UNCHANGED rmVars
    /\ UNCHANGED << call, argv, fs, fs0, unwritable, unreadable, offline,
                    packageManager, available, probed, error, exitCode >>

\* The answer of the operator ignored
DeclinedIgnored(overwrite) == FALSE

\* if (!overwrite): the operator declined
Declined(overwrite) == ~overwrite

\* Step 3: the operator answers the prompt; declining cancels the run
PromptAnswer ==
    /\ pc = "prompt"
    /\ \E overwrite \in BOOLEAN :
          IF Declined(overwrite)
          THEN /\ log' = log \o << Ev("answer", overwrite),
                                  Ev("print:cancelled", << >>) >>
               /\ markCompleted
               /\ pc' = "returned"
          ELSE /\ log' = Append(log, Ev("answer", overwrite))
               /\ pc' = Overwrite
               /\ UNCHANGED rmVars
    /\ UNCHANGED << call, argv, fs, fs0, unwritable, unreadable, offline,
                    packageManager, available, probed, error, exitCode >>

\* Step 3: await fs.remove(targetDir)
RemoveExisting ==
    /\ pc = "remove"
    /\ fs' = Remove(fs, projectPath)
    /\ IF RemoveFails(fs, projectPath)
       THEN /\ Throw([type |-> "Error", context |-> {}])
            /\ UNCHANGED log
       ELSE /\ pc' = AfterExisting
            /\ log' = Append(log, Ev("remove", projectPath))
            /\ UNCHANGED error
    /\ UNCHANGED rmVars
    /\ UNCHANGED << call, argv, fs0, unwritable, unreadable, offline,
                    packageManager, available, probed, exitCode >>

\* Step 4: dry run mode, just show what would be created
DryRun ==
    /\ pc = "dryRun"
    /\ log' = Append(log, Ev("print:dry-run", projectPath))
    /\ pc' = "returned"
    /\ UNCHANGED rmVars
    /\ UNCHANGED << call, argv, fs, fs0, unwritable, unreadable, offline,
                    packageManager, available, probed, error, exitCode >>

\* Where createProject goes after the network check: Step 6 probes the
\* managers unless installation is skipped
AfterNetwork == IF argv.skipInstall THEN "ensureDir" ELSE "probe"

\* "Creating React + Vite project", then Step 5: the network check is
\* started unless installation is skipped or the process is offline
Create ==
    /\ pc = "create"
    /\ log' = Append(log, Ev("print:creating", << >>))
    /\ pc' = IF ~argv.skipInstall /\ ~offline THEN "network" ELSE AfterNetwork
    /\ UNCHANGED rmVars
    /\ UNCHANGED << call, argv, fs, fs0, unwritable, unreadable, offline,
                    packageManager, available, probed, error, exitCode >>

\* performNetworkChecks: both probes succeed, the ping fails, or the
\* registry cannot be reached
NetworkStatus == { "ok", "noInternet", "noRegistry" }

\* Step 5: await ensureNetworkConnectivity({ verbose })
Network ==
    /\ pc = "network"
    /\ \E status \in NetworkStatus :
          /\ log' = Append(log, Ev("probe:network", status))
          /\ IF status = "ok"
             THEN pc' = AfterNetwork /\ UNCHANGED error
             ELSE Throw(BoilerplateError("NETWORK", { "networkStatus" }))
    /\ UNCHANGED rmVars
    /\ UNCHANGED << call, argv, fs, fs0, unwritable, unreadable, offline,
                    packageManager, available, probed, exitCode >>

NextProbeStopsOnFailure(n, ok) ==
    IF ok THEN n + 1 ELSE Len(PACKAGE_MANAGERS)

\* for (const manager of managers): the loop goes on to the next manager
\* whether or not the probe found this one
NextProbe(n, ok) == n + 1

\* Step 6: detectAvailablePackageManagers, one awaited probe of the loop
Probe ==
    /\ pc = "probe"
    /\ probed < Len(PACKAGE_MANAGERS)
    /\ LET manager == PACKAGE_MANAGERS[probed + 1].name IN
       \E outcome \in ProbeOutcomes :
          LET ok == isPackageManagerAvailable(manager, outcome) IN
          /\ available' = IF ok THEN Append(available, manager) ELSE available
          /\ log' = Append(log, Ev("probe:pm",
                             [manager |-> manager, outcome |-> outcome]))
          /\ probed' = NextProbe(probed, ok)
    /\ UNCHANGED rmVars
    /\ UNCHANGED << call, pc, argv, fs, fs0, unwritable, unreadable, offline,
                    packageManager, error, exitCode >>

\* Step 6: the requested manager must be available; without a request the
\* preferred manager is resolved from process.cwd()
ResolveManager ==
    /\ pc = "probe"
    /\ probed = Len(PACKAGE_MANAGERS)
    /\ IF packageManager # "null" /\ ~InSeq(packageManager, available)
       THEN /\ Throw(BoilerplateError("PACKAGE_MANAGER", { "requested", "available" }))
            /\ UNCHANGED packageManager
       ELSE /\ packageManager' =
                  IF packageManager = "null"
                  THEN getPreferredPackageManager(fs, Cwd, available)
                  ELSE packageManager
            /\ pc' = "ensureDir"
            /\ UNCHANGED error
    /\ UNCHANGED rmVars
    /\ UNCHANGED << call, argv, fs, fs0, unwritable, unreadable, offline,
                    available, probed, log, exitCode >>

\* Step 7: await fs.ensureDir(targetDir)
CreateDirectory ==
    /\ pc = "ensureDir"
    /\ fs' = EnsureDir(fs, projectPath)
    /\ log' = Append(log, Ev("ensureDir", projectPath))
    /\ pc' = "copy"
    /\ UNCHANGED rmVars
    /\ UNCHANGED << call, argv, fs0, unwritable, unreadable, offline,
                    packageManager, available, probed, error, exitCode >>

\* What fs.copy(templateDir, targetDir) writes
TemplateFiles == { "package.json", "vite.config.ts", "index.html" }

\* Step 8: copyTemplateFiles; a failure may leave a part of the template
CopyTemplate ==
    /\ pc = "copy"
    /\ \E ok \in BOOLEAN :
          IF ok
          THEN /\ fs' = AddFiles(fs, projectPath, TemplateFiles)
               /\ log' = Append(log, Ev("copy", projectPath))
               /\ pc' = IF argv.skipInstall
                        THEN (IF argv.skipGit THEN "finish" ELSE "git")
                        ELSE "install"
               /\ UNCHANGED error
          ELSE /\ \E part \in { {}, { "index.html" } } :
                     fs' = AddFiles(fs, projectPath, part)
               /\ Throw(BoilerplateError("TEMPLATE", { "template", "originalError" }))
               /\ UNCHANGED log
    /\ UNCHANGED rmVars
    /\ UNCHANGED << call, argv, fs0, unwritable, unreadable, offline,
                    packageManager, available, probed, exitCode >>

\* Step 9: installDependencies(packageManager, targetDir)
Install ==
    /\ pc = "install"
    /\ \E ok \in BOOLEAN :
          /\ log' = Append(log, Ev("install", packageManager))
          /\ IF ok
             THEN /\ fs' = AddFiles(fs, projectPath, { "node_modules" })
                  /\ pc' = "shadcn"
                  /\ UNCHANGED error
             ELSE /\ UNCHANGED fs
                  /\ Throw(BoilerplateError("PACKAGE_MANAGER",
                                            { "manager", "stdout", "stderr" }))
    /\ UNCHANGED rmVars
    /\ UNCHANGED << call, argv, fs0, unwritable, unreadable, offline,
                    packageManager, available, probed, exitCode >>

\* Where createProject goes after Step 10
AfterShadcn == IF argv.skipGit THEN "finish" ELSE "git"

\* Step 10 with a catch block that throws the failure on
ShadcnRethrows ==
    /\ pc = "shadcn"
    /\ \E ok \in BOOLEAN :
          /\ log' = log \o << Ev("shadcn", ok) >>
                        \o (IF ok THEN << >> ELSE << Ev("print:warning", "shadcn") >>)
          /\ IF ok
             THEN pc' = AfterShadcn /\ UNCHANGED error
             ELSE Throw(BoilerplateError("UNKNOWN", {}))
    /\ UNCHANGED rmVars
    /\ UNCHANGED << call, argv, fs, fs0, unwritable, unreadable, offline,
                    packageManager, available, probed, exitCode >>

\* Step 10: setupShadcn; its failure is caught and printed as a warning
Shadcn ==
    /\ pc = "shadcn"
    /\ \E ok \in BOOLEAN :
          log' = log \o << Ev("shadcn", ok) >>
                     \o (IF ok THEN << >> ELSE << Ev("print:warning", "shadcn") >>)
    /\ pc' = AfterShadcn
    /\ UNCHANGED rmVars
    /\ UNCHANGED << call, argv, fs, fs0, unwritable, unreadable, offline,
                    packageManager, available, probed, error, exitCode >>

\* initGitRepository: git init fails, git add fails, or both succeed (the
\* result of git commit is ignored)
GitOutcomes == { "ok", "initFailed", "addFailed" }

\* Step 11: initGitRepository; its failure is caught and printed
GitInit ==
    /\ pc = "git"
    /\ \E outcome \in GitOutcomes :
          /\ fs' = IF outcome = "initFailed" THEN fs
                   ELSE AddFiles(fs, projectPath, { ".git" })
          /\ log' = log \o << Ev("git", outcome) >>
                        \o (IF outcome = "ok" THEN << >>
                            ELSE << Ev("print:warning", "git") >>)
    /\ pc' = "finish"
    /\ UNCHANGED rmVars
    /\ UNCHANGED << call, argv, fs0, unwritable, unreadable, offline,
                    packageManager, available, probed, error, exitCode >>

\* rollback.markCompleted() and Step 12: the success message
Finish ==
    /\ pc = "finish"
    /\ markCompleted
    /\ log' = Append(log, Ev("print:success", << >>))
    /\ pc' = "returned"
    /\ UNCHANGED << call, argv, fs, fs0, unwritable, unreadable, offline,
                    packageManager, available, probed, error, exitCode >>

\* createProject returned: nothing is pending and the process ends
Exit0 ==
    /\ pc = "returned"
    /\ exitCode' = 0
    /\ pc' = "exited"
    /\ UNCHANGED rmVars
    /\ UNCHANGED << call, argv, fs, fs0, unwritable, unreadable, offline,
                    packageManager, available, probed, error, log >>

\* ------------------------------------------------------------------------
\* lib/error-handler.js: withErrorHandling and handleError
\* ------------------------------------------------------------------------

\* The execute() call of handleError
Handler == 1

\* handleError: if (rollback) await rollback.execute(), up to the await
HandleError ==
    /\ pc = "handleError"
    /\ execute(Handler)
    /\ pc' = "rollback"
    /\ log' = IF ExecuteGuard THEN log
              ELSE Append(log, Ev("print:rolling-back", << >>))
    /\ UNCHANGED << call, argv, fs, fs0, unwritable, unreadable, offline,
                    packageManager, available, probed, error, exitCode >>

\* The rollback action settles and execute() goes on
Rollback ==
    /\ pc = "rollback"
    /\ settle(Handler)
    /\ LET a == actions[LoopOrder(calls[Handler].n)[calls[Handler].k]] IN
       log' = log
              \o (IF a.kind = "rmdir" /\ existsSync(fs, a.path)
                  THEN << Ev("rollback:remove", a.path) >> ELSE << >>)
              \o (IF calls'[Handler].pc = "done"
                  THEN << Ev("print:rollback-completed", << >>) >>
                  ELSE << >>)
    /\ UNCHANGED << call, pc, argv, fs0, unwritable, unreadable, offline,
                    packageManager, available, probed, error, exitCode >>

\* rollback.execute() called without await
RollbackNotAwaited == TRUE

\* await rollback.execute(): handleError goes on when execute() has returned
RollbackAwaited == calls[Handler].pc \in { "done", "threw" }

\* One line of a formatted message; the text is a sequence of pieces
Line(part, text) == [part |-> part, text |-> text]

HasManagerAlways(e) == TRUE

\* if (error.context.manager)
HasManager(e) == "manager" \in e.context /\ e.manager # ""

\* The switch on error.type: the suggestions of each kind
Suggestions(e) ==
    CASE e.type = "NETWORK" ->
            << Line("suggestions", << >>),
               Line("bullet", << "Check your internet connection" >>),
               Line("bullet", << "Try using a different network" >>),
               Line("bullet", << "Use --offline flag if available" >>) >>
      [] e.type = "PACKAGE_MANAGER" ->
            << Line("suggestions", << >>),
               Line("bullet", << "Try using a different package manager with --pm flag" >>),
               Line("bullet", << "Clear package manager cache" >>),
               Line("bullet", << "Check if package manager is properly installed" >>) >>
            \o (IF HasManager(e)
                THEN << Line("bullet", << "Try: ", e.manager, " cache clean --force" >>) >>
                ELSE << >>)
      [] e.type = "FILESYSTEM" ->
            << Line("suggestions", << >>),
               Line("bullet", << "Check file permissions" >>),
               Line("bullet", << "Ensure you have write access to the directory" >>),
               Line("bullet", << "Try running with elevated permissions" >>) >>
      [] e.type = "VALIDATION" ->
            << Line("suggestions", << >>),
               Line("bullet", << "Use only letters, numbers, hyphens, and underscores" >>),
               Line("bullet", << "Start with a letter or number" >>),
               Line("bullet", << "Avoid reserved words" >>) >>
      [] OTHER -> << >>

\* formatErrorMessage(error): the lines of the message
formatErrorMessage(e) ==
    << Line("header", << "Error: ", e.message >>) >>
    \o (IF e.boilerplate THEN Suggestions(e) ELSE << >>)
    \o << Line("support", << "For more help, visit: https://github.com/yourusername/react-vite-boilerplate/issues" >>) >>

handleErrorOutputQuiet(e, verbose) ==
    << Ev("print:error", e.type) >>
    \o (IF verbose /\ e.stack THEN << Ev("print:stack", << >>) >> ELSE << >>)
    \o (IF verbose /\ e.context # {}
        THEN << Ev("print:context", e.context) >> ELSE << >>)

\* handleError(error, rollback, { verbose }): what it prints after the
\* rollback: the formatted message, the stack trace, the context
handleErrorOutput(e, verbose) ==
    << Ev("print:error", e.type) >>
    \o (IF verbose /\ e.stack THEN << Ev("print:stack", << >>) >> ELSE << >>)
    \o (IF e.context # {}
        THEN << Ev("print:context", e.context) >> ELSE << >>)

\* { verbose: options.verbose }: the runs are those without --verbose
Verbose == FALSE

\* handleError prints the formatted message (and the context, if any), or,
\* when execute() threw, rejects without printing it
Report ==
    /\ pc = "rollback"
    /\ RollbackAwaited
    /\ log' = IF calls[Handler].pc = "threw" THEN log
              ELSE log \o handleErrorOutput(error, Verbose)
    /\ pc' = "exiting"
    /\ UNCHANGED rmVars
    /\ UNCHANGED << call, argv, fs, fs0, unwritable, unreadable, offline,
                    packageManager, available, probed, error, exitCode >>

\* process.exit(1), or the exit on the unhandled rejection
Exit1 ==
    /\ pc = "exiting"
    /\ exitCode' = 1
    /\ pc' = "exited"
    /\ UNCHANGED rmVars
    /\ UNCHANGED << call, argv, fs, fs0, unwritable, unreadable, offline,
                    packageManager, available, probed, error, log >>

Next ==
    \/ ProgramAction \/ ValidateName \/ ValidateDir \/ HandleExisting
    \/ PromptAnswer \/ RemoveExisting \/ DryRun \/ Create \/ Network
    \/ Probe \/ ResolveManager \/ CreateDirectory \/ CopyTemplate
    \/ Install \/ Shadcn \/ GitInit \/ Finish \/ Exit0
    \/ HandleError \/ Rollback \/ Report \/ Exit1

Spec == Init /\ [][Next]_vars

\* ------------------------------------------------------------------------
\* The library functions called on their own: lib/package-managers.js and
\* lib/validators.js
\* ------------------------------------------------------------------------

MaxAvailable == 3

\* Names a caller may pass as a manager: the registered ones, two that are
\* not registered, and one that every object inherits
ManagerNames == Registered \cup { "deno", "", "constructor" }

\* The lists of n names a caller may pass as `available`
AvailableLists(n) == [1..n -> Registered \cup { "deno" }]

LockFiles == { PACKAGE_MANAGERS[i].lockFile : i \in DOMAIN PACKAGE_MANAGERS }

\* The filesystem in which projectDir = Cwd holds the files `here` and its
\* parent directory the files `parent`
FsWithLocks(here, parent) ==
    ( Root :> {} ) @@ ( Home :> parent ) @@ ( Cwd :> here )

\* A call that has not returned yet, and the same call once it has
Pending(fn, args) == [fn |-> fn, args |-> args, returned |-> FALSE]

Returned(c, value) ==
    [fn |-> c.fn, args |-> c.args, returned |-> TRUE, result |-> value]

\* call is a call of getPreferredPackageManager
PreferredCall ==
    \E h \in SUBSET LockFiles, p \in SUBSET LockFiles, n \in 0..MaxAvailable :
       \E a \in AvailableLists(n) :
          call = Pending("getPreferredPackageManager",
                         [here |-> h, parent |-> p, available |-> a])

\* call is a call of isPackageManagerAvailable
AvailableCall ==
    \E m \in ManagerNames, o \in ProbeOutcomes :
       call = Pending("isPackageManagerAvailable",
                      [manager |-> m, outcome |-> o])

\* getPreferredPackageManager(projectDir, available) returns
GetPreferredPackageManager ==
    /\ call.fn = "getPreferredPackageManager"
    /\ ~call.returned
    /\ call' = Returned(call,
                  getPreferredPackageManager(
                      FsWithLocks(call.args.here, call.args.parent),
                      Cwd, call.args.available))
    /\ UNCHANGED rmVars
    /\ UNCHANGED << pc, argv, fs, fs0, unwritable, unreadable, offline,
                    packageManager, available, probed, error, log, exitCode >>

\* isPackageManagerAvailable(manager) resolves; `spawned` tells whether the
\* check command was started on the way
IsPackageManagerAvailable ==
    /\ call.fn = "isPackageManagerAvailable"
    /\ ~call.returned
    /\ call' = Returned(call,
                  [spawned |-> Spawns(call.args.manager),
                   value |-> isPackageManagerAvailable(call.args.manager,
                                                       call.args.outcome)])
    /\ UNCHANGED rmVars
    /\ UNCHANGED << pc, argv, fs, fs0, unwritable, unreadable, offline,
                    packageManager, available, probed, error, log, exitCode >>

MaxLen == 3

MaxSegLen == 2

\* Characters of every class the checks of validateProjectName tell apart
NameAlphabet ==
    { "a", "A", "1", "-", "_", ".", "@", "/", " ", "$",
      "~", ")", "(", "'", "!", "*" }

\* Every string of n characters
ShortNames(n) == [1..n -> NameAlphabet]

SegAlphabet == { "a", "A", "1", "-", ".", "_", "~", "/" }

\* The segments of n characters
Segments(n) == [1..n -> SegAlphabet]

\* Names of the shape @<scope>/<name> with a scope of m and a name of n
\* characters, either part possibly empty or malformed
ScopedNames(m, n) ==
    { << "@" >> \o sc \o << "/" >> \o nm : sc \in Segments(m), nm \in Segments(n) }

\* The scoped names of the test suite
TestedScopedNames ==
    { <<"@","s","c","o","p","e","/">>
         \o <<"p","a","c","k","a","g","e","-","n","a","m","e">>,
      <<"@","/","i","n","v","a","l","i","d">> }

\* s with its k-th character in upper case
Capital(s, k) ==
    [i \in DOMAIN s |->
        IF i = k /\ s[i] \in Lower
        THEN UpperSeq[CHOOSE j \in DOMAIN LowerSeq : LowerSeq[j] = s[i]]
        ELSE s[i]]

UpperCase(s) ==
    [i \in DOMAIN s |->
        IF s[i] \in Lower
        THEN UpperSeq[CHOOSE j \in DOMAIN LowerSeq : LowerSeq[j] = s[i]]
        ELSE s[i]]

\* A reserved name in lower case, in upper case, and with one capital
CaseVariants(s) == { s, UpperCase(s) } \cup { Capital(s, k) : k \in DOMAIN s }

ReservedVariants == UNION { CaseVariants(r) : r \in RESERVED_NAMES }

\* Scoped names made of a reserved word
ScopedReserved ==
    { << "@", "s", "/" >> \o r : r \in RESERVED_NAMES }
    \cup { << "@" >> \o r \o << "/", "p" >> : r \in RESERVED_NAMES }

Repeat(c, n) == [i \in 1..n |-> c]

\* Names around the length limit
LongNames ==
    UNION { { Repeat("a", n), Repeat("A", n), Repeat(" ", n), Repeat(".", n),
              Repeat("!", n), Repeat("$", n),
              << "a" >> \o Repeat(" ", n - 1),
              << "1" >> \o Repeat("-", n - 1),
              << "n", "u", "l" >> \o Repeat("l", n - 3),
              << "@", "a", "/" >> \o Repeat("b", n - 3) } :
            n \in (MaxNameLength - 1)..(MaxNameLength + 2) }

\* Values of other types a caller may pass as the name
NonStrings == { [t |-> "undefined"], [t |-> "null"], [t |-> "number"] }

NameCallOf(v) == call = Pending("validateProjectName", [name |-> v])

\* call is a call of validateProjectName
NameCall ==
    \/ \E n \in 0..MaxLen : \E s \in ShortNames(n) : NameCallOf(Str(s))
    \/ \E m \in 0..MaxSegLen, n \in 0..1 :
          \/ \E s \in ScopedNames(m, n) : NameCallOf(Str(s))
          \/ \E s \in ScopedNames(n, m) : NameCallOf(Str(s))
    \/ \E s \in TestedScopedNames \cup ReservedVariants \cup ScopedReserved
                 \cup LongNames : NameCallOf(Str(s))
    \/ \E v \in NonStrings : NameCallOf(v)

\* validateProjectName(name) returns
ValidateProjectName ==
    /\ call.fn = "validateProjectName"
    /\ ~call.returned
    /\ call' = Returned(call, validateProjectName(call.args.name))
    /\ UNCHANGED rmVars
    /\ UNCHANGED << pc, argv, fs, fs0, unwritable, unreadable, offline,
                    packageManager, available, probed, error, log, exitCode >>

MaxPathLen == 4

\* Characters of a path argument: a letter, the dot and the tilde, the
\* separator, and the letters of the home and the working directory
PathAlphabet == { "a", ".", "~", "/", "h", "w" }

\* Every path of n characters
ShortPaths(n) == [1..n -> PathAlphabet]

\* The system directories, paths below them and paths that lead to them
ListedPaths ==
    { << "/", "u", "s", "r" >>, << "/", "e", "t", "c" >>,
      << "/", "v", "a", "r" >>,
      << "/", "S", "y", "s", "t", "e", "m" >>,
      << "/", "W", "i", "n", "d", "o", "w", "s" >>,
      << "/", "P", "r", "o", "g", "r", "a", "m", " ", "F", "i", "l", "e", "s" >>,
      << "/", "P", "r", "o", "g", "r", "a", "m", " ", "F", "i", "l", "e", "s",
         " ", "(", "x", "8", "6", ")" >>,
      << "/", "e", "t", "c", "/" >>, << "/", "e", "t", "c", "/", "a" >>,
      << "/", "u", "s", "r", "/", ".", ".", "/", "e", "t", "c" >>,
      << "/", "h", "/", "w", "/", "a" >>, << "/", "h", "/", "w", "/", "." >>,
      << "a", "/", ".", ".", "/", "a" >>, << "~", "/", ".", ".", "/", "a" >>,
      << "a", "/", "a", ".", ".", "a" >>, << "a", "/", "~", "a" >> }

\* call is a call of validateTargetDirectory on some filesystem
TargetCallOf(s) ==
    /\ call = Pending("validateTargetDirectory", [path |-> s])
    /\ fs \in StartFs(resolve(Cwd, s))
    /\ fs0 = fs
    /\ \E perm \in StartPermissions(fs, resolve(Cwd, s)) :
          /\ unwritable = perm.nowrite
          /\ unreadable = perm.noread

TargetCall ==
    \/ \E n \in 0..MaxPathLen : \E s \in ShortPaths(n) : TargetCallOf(s)
    \/ \E s \in ListedPaths : TargetCallOf(s)

\* validateTargetDirectory(targetPath) returns; path.resolve(targetPath)
\* resolves against process.cwd()
ValidateTargetDirectory ==
    /\ call.fn = "validateTargetDirectory"
    /\ ~call.returned
    /\ call' = Returned(call,
                  validateTargetDirectory(resolve(Cwd, call.args.path)))
    /\ UNCHANGED rmVars
    /\ UNCHANGED << pc, argv, fs, fs0, unwritable, unreadable, offline,
                    packageManager, available, probed, error, log, exitCode >>

\* ERROR_TYPES, and a type that is none of them
ErrorTypes ==
    { "VALIDATION", "NETWORK", "FILESYSTEM", "PACKAGE_MANAGER", "TEMPLATE",
      "UNKNOWN", "OTHER" }

\* The errors handed to formatErrorMessage and handleError: a
\* BoilerplateError or another Error, the keys of its context, the value of
\* context.manager, and whether it has a stack
Errors ==
    { e \in [ boilerplate : BOOLEAN, type : ErrorTypes,
              context : SUBSET { "manager", "field" },
              manager : { "", "npm", "yarn" },
              message : { "failed", "not available" }, stack : BOOLEAN ] :
         /\ e.manager # "" <=> "manager" \in e.context
         /\ ~e.boilerplate => e.context = {} }

\* call is a call of formatErrorMessage
FormatCall ==
    \E e \in Errors : call = Pending("formatErrorMessage", [error |-> e])

\* call is a call of handleError without a rollback manager and with
\* exitProcess: false
HandleCall ==
    \E e \in Errors, v \in BOOLEAN :
       call = Pending("handleError", [error |-> e, verbose |-> v])

\* formatErrorMessage(error) returns
FormatErrorMessage ==
    /\ call.fn = "formatErrorMessage"
    /\ ~call.returned
    /\ call' = Returned(call, formatErrorMessage(call.args.error))
    /\ UNCHANGED rmVars
    /\ UNCHANGED << pc, argv, fs, fs0, unwritable, unreadable, offline,
                    packageManager, available, probed, error, log, exitCode >>

\* handleError(error, null, { verbose, exitProcess: false }) returns; the
\* result is what it printed
HandleErrorCall ==
    /\ call.fn = "handleError"
    /\ ~call.returned
    /\ call' = Returned(call,
                  handleErrorOutput(call.args.error, call.args.verbose))
    /\ UNCHANGED rmVars
    /\ UNCHANGED << pc, argv, fs, fs0, unwritable, unreadable, offline,
                    packageManager, available, probed, error, log, exitCode >>

InitFn ==
    /\ NewManager
    /\ NoProcess
    /\ \/ /\ NoFiles
          /\ \/ PreferredCall \/ AvailableCall \/ NameCall
             \/ FormatCall \/ HandleCall
       \/ TargetCall

NextFn ==
    \/ GetPreferredPackageManager
    \/ IsPackageManagerAvailable
    \/ ValidateProjectName
    \/ ValidateTargetDirectory
    \/ FormatErrorMessage
    \/ HandleErrorCall

SpecFn == InitFn /\ [][NextFn]_vars

\* A run of the command line, or one call of a library function
InitAll == Init \/ InitFn

NextAll == Next \/ NextFn

SpecAll == InitAll /\ [][NextAll]_vars

\* ------------------------------------------------------------------------
\* Properties of the RollbackManager (under SpecRM)
\* ------------------------------------------------------------------------

StartsOf(idx) == { j \in DOMAIN trace : trace[j].ev = "start" /\ trace[j].idx = idx }

EndsOf(idx) == { j \in DOMAIN trace : trace[j].ev = "end" /\ trace[j].idx = idx }

\* C2: execute() invokes the registered actions in strict reverse of insertion
\* order and serialized: the first action started is the last one registered
\* when execute() was called (An), every later start of Ai directly follows
\* the end of Ai+1, and an execute() that returns after running has started
\* and finished every one of A1..An.
C2_ReverseSerialized ==
    /\ \A j \in DOMAIN trace :
          trace[j].ev = "start" =>
             IF j = 1
             THEN trace[j].idx = calls[trace[j].by].n
             ELSE /\ trace[j - 1].ev = "end"
                  /\ trace[j - 1].idx = trace[j].idx + 1
    /\ \A c \in Callers :
          (calls[c].pc = "done" /\ calls[c].n > 0) =>
             \A idx \in 1..calls[c].n : StartsOf(idx) # {} /\ EndsOf(idx) # {}

\* C2 witness: an execute() over at least two actions, one of which failed,
\* has returned.
C2_Witness ==
    \E c \in Callers :
        /\ calls[c].pc = "done"
        /\ calls[c].n >= 2
        /\ \E j \in DOMAIN trace : trace[j].ev = "end" /\ trace[j].outcome = "error"

\* C3: over the lifetime of a manager every registered action is invoked at
\* most once, whatever the number and interleaving of execute() calls: only
\* one call ever invokes actions, and it invokes each index at most once.
C3_AtMostOnce ==
    /\ \A idx \in DOMAIN actions : Cardinality(StartsOf(idx)) <= 1
    /\ \A i, j \in DOMAIN trace : trace[i].by = trace[j].by

\* C3 witness: a second execute() has returned while the first is suspended
\* inside an awaited action.
C3_Witness ==
    \E c, d \in Callers :
        /\ c # d
        /\ calls[c].pc = "await"
        /\ calls[d].pc = "done"
        /\ Len(actions) >= 2

\* C4: an execute() called after markCompleted() invokes no action, whatever
\* was registered before or after; markCompleted() itself invokes no action.
C4_MarkCompletedSuppresses ==
    /\ [](\A j \in DOMAIN trace : trace[j].by \notin lateCalls)
    /\ [][markCalled' # markCalled => trace' = trace]_vars

\* C4 witness: an execute() called after markCompleted() has returned, with
\* actions registered.
C4_Witness ==
    /\ markCalled
    /\ Len(actions) >= 2
    /\ \E c \in lateCalls : calls[c].pc = "done"

\* C5 (as claimed): whatever subset of the actions throws or rejects,
\* execute() never throws, and when it has returned every action registered
\* at the call has been invoked.
C5_BestEffortNeverThrows ==
    \A c \in Callers :
        /\ calls[c].pc # "threw"
        /\ (calls[c].pc = "done" /\ calls[c].n > 0) =>
              \A idx \in 1..calls[c].n : StartsOf(idx) # {}

\* ------------------------------------------------------------------------
\* Properties of a run of the CLI (under Spec)
\* ------------------------------------------------------------------------

\* Position in the log of the first event e; 0 when there is none
FirstLogged(e) ==
    IF Logged(e) THEN Min({ i \in DOMAIN log : log[i].ev = e }) ELSE 0

\* The operator answered the overwrite prompt with no / with yes
OperatorDeclined == \E i \in DOMAIN log : log[i].ev = "answer" /\ log[i].arg = FALSE

OperatorAccepted == \E i \in DOMAIN log : log[i].ev = "answer" /\ log[i].arg = TRUE

\* C1 (as claimed): the filesystem changes only after both validations have
\* succeeded; in particular a run whose validation fails leaves the
\* filesystem as it was, also when the resolved path exists.
C1_NoMutationBeforeValidation == ~Logged("dir-valid") => fs = fs0

\* C6: when the operator declines the overwrite prompt the manager is marked
\* completed, no rollback action is invoked, the filesystem is unchanged, no
\* error is raised, the run returns and the exit code is 0.
C6_DeclineIsCleanNoOp ==
    OperatorDeclined =>
        /\ completed
        /\ trace = << >>
        /\ fs = fs0
        /\ error = NoError
        /\ pc \in { "returned", "exited" }
        /\ pc = "exited" => exitCode = 0

\* C6 witness: a run over an existing non-empty directory has exited after
\* the operator declined.
C6_Witness ==
    /\ pc = "exited"
    /\ OperatorDeclined
    /\ ~argv.yes
    /\ HasEntries(fs0, projectPath)

\* What a dry run must not start: a network probe, a package-manager probe,
\* an install, the Shadcn setup or a git step
StartedExternalStep ==
    \E i \in DOMAIN log :
        log[i].ev \in { "probe:network", "probe:pm", "install", "shadcn", "git" }

\* The dry-run report names the intended project path
ReportedProjectPath ==
    \E i \in DOMAIN log : log[i].ev = "print:dry-run" /\ log[i].arg = projectPath

\* C7 (as claimed): a --dry-run run with valid inputs changes nothing on the
\* filesystem, starts no external step, reports the intended project path
\* and exits with code 0.
C7_DryRunAlwaysReports ==
    (argv.dryRun /\ Logged("dir-valid")) =>
        /\ fs = fs0
        /\ ~StartedExternalStep
        /\ error = NoError
        /\ pc = "exited" => (exitCode = 0 /\ ReportedProjectPath)

\* C7 (amended): as claimed, except that the intended project path is
\* reported unless the operator declined the overwrite prompt; a declined
\* dry run prints the cancellation instead and still exits with code 0.
C7_DryRunReportsUnlessDeclined ==
    (argv.dryRun /\ Logged("dir-valid")) =>
        /\ fs = fs0
        /\ ~StartedExternalStep
        /\ error = NoError
        /\ pc = "exited" =>
              /\ exitCode = 0
              /\ ReportedProjectPath <=> ~OperatorDeclined
              /\ OperatorDeclined => Logged("print:cancelled")

\* C7 witness: a dry run over an existing non-empty directory, overwrite
\* accepted, has reported and exited.
C7_Witness ==
    /\ pc = "exited"
    /\ argv.dryRun
    /\ OperatorAccepted
    /\ HasEntries(fs0, projectPath)
    /\ ReportedProjectPath

\* The template copy or the dependency installation failed
CriticalFailure ==
    \/ error.type = "TEMPLATE"
    \/ error.type = "PACKAGE_MANAGER" /\ "manager" \in error.context

\* C8: after a failure of the template copy or of the installation, the
\* error message is printed only when the rollback has run to completion and
\* has removed the target directory, and the process exits, with code 1,
\* only after the message has been printed.
C8_RollbackThenReportThenExit ==
    CriticalFailure =>
        /\ Logged("ensureDir")
        /\ Logged("print:error") =>
              /\ calls[Handler].pc = "done"
              /\ StartsOf(1) # {} /\ EndsOf(1) # {}
              /\ Logged("print:rollback-completed")
              /\ FirstLogged("print:rollback-completed") < FirstLogged("print:error")
              /\ ~existsSync(fs, projectPath)
        /\ pc = "exited" => (exitCode = 1 /\ Logged("print:error"))

\* C8 witness: a run whose installation failed has exited.
C8_Witness ==
    /\ pc = "exited"
    /\ error.type = "PACKAGE_MANAGER"
    /\ "manager" \in error.context
    /\ Logged("copy")

\* The Shadcn/UI setup or the git initialization failed
NonCriticalFailure ==
    \E i \in DOMAIN log :
        log[i].ev = "print:warning" /\ log[i].arg \in { "shadcn", "git" }

\* C9: a failure of the Shadcn/UI setup or of the git initialization raises
\* no error: the run goes on with the remaining steps, marks the manager
\* completed, invokes no rollback action, keeps the created project
\* directory and exits with code 0.
C9_NonCriticalFailureContinues ==
    NonCriticalFailure =>
        /\ error = NoError
        /\ trace = << >>
        /\ pc \in { "git", "finish", "returned", "exited" }
        /\ existsSync(fs, projectPath)
        /\ TemplateFiles \subseteq fs[projectPath]
        /\ pc \in { "returned", "exited" } =>
              /\ completed
              /\ markCalled
              /\ Logged("print:success")
              /\ ~argv.skipGit => Logged("git")
        /\ pc = "exited" => exitCode = 0

\* C9 witness: a run in which the Shadcn/UI setup and the git initialization
\* both failed has exited.
C9_Witness ==
    /\ pc = "exited"
    /\ \E i \in DOMAIN log : log[i].ev = "print:warning" /\ log[i].arg = "shadcn"
    /\ \E i \in DOMAIN log : log[i].ev = "print:warning" /\ log[i].arg = "git"

\* C10: the overwrite prompt is shown exactly when --yes is absent and the
\* target directory exists after validation; and when the run goes on to
\* create the project directory, a directory that existed has been removed
\* first, so that no file of it is in the created project.
C10_PromptAndOverwrite ==
    /\ pc \notin { "action", "validateName", "validateDir", "existing" } =>
          (Logged("prompt") <=>
              (Logged("dir-valid") /\ ~argv.yes /\ existsSync(fs0, projectPath)))
    /\ Logged("ensureDir") =>
          /\ existsSync(fs0, projectPath) =>
                (Logged("remove") /\ FirstLogged("remove") < FirstLogged("ensureDir"))
          /\ existsSync(fs, projectPath) => fs[projectPath] \cap OldFiles = {}

\* C10 witness: the operator accepted the overwrite of a non-empty directory
\* and the template has been copied.
C10_Witness ==
    /\ OperatorAccepted
    /\ HasEntries(fs0, projectPath)
    /\ Logged("copy")

\* ------------------------------------------------------------------------
\* Properties of lib/package-managers.js (under SpecFn, C15 under Spec)
\* ------------------------------------------------------------------------

\* The registry order and the lockfile of each manager, as documented
RegistryOrder == << "npm", "yarn", "pnpm", "bun" >>

LockFileOf(m) ==
    CASE m = "npm"  -> "package-lock.json"
      [] m = "yarn" -> "yarn.lock"
      [] m = "pnpm" -> "pnpm-lock.yaml"
      [] m = "bun"  -> "bun.lockb"

\* The documented priority: pnpm, yarn, bun, npm, then anything else
Rank(m) ==
    CASE m = "pnpm" -> 1
      [] m = "yarn" -> 2
      [] m = "bun"  -> 3
      [] m = "npm"  -> 4
      [] OTHER      -> 5

\* Positions in the registry of the available managers whose lockfile is
\* among `files`
Selectable(files, avail) ==
    { i \in DOMAIN RegistryOrder :
         /\ LockFileOf(RegistryOrder[i]) \in files
         /\ InSeq(RegistryOrder[i], avail) }

PreferredReturned == call.fn = "getPreferredPackageManager" /\ call.returned

\* C11: getPreferredPackageManager returns the first manager, in registry
\* order, that is in `available` and whose lockfile is in projectDir; only
\* when there is none, the first such manager for the parent directory; a
\* manager outside a non-empty `available` is never returned, whatever
\* lockfiles exist; a lockfile match wins over the priority order.
C11_LockfilePrecedence ==
    PreferredReturned =>
        LET here   == Selectable(call.args.here, call.args.available)
            parent == Selectable(call.args.parent, call.args.available)
        IN  /\ here # {} => call.result = RegistryOrder[Min(here)]
            /\ (here = {} /\ parent # {})
                  => call.result = RegistryOrder[Min(parent)]
            /\ Len(call.args.available) > 0
                  => InSeq(call.result, call.args.available)

\* The lockfile in projectDir names a manager that is not available, the
\* parent's lockfile selects npm although yarn has the higher priority
C11_Witness ==
    /\ PreferredReturned
    /\ call.args.here = { "pnpm-lock.yaml" }
    /\ call.args.parent = { "package-lock.json" }
    /\ call.args.available = << "yarn", "npm" >>
    /\ call.result = "npm"

\* C12: without a lockfile of an available manager in projectDir or its
\* parent, the result is the first of pnpm, yarn, bun, npm that is in
\* `available`; if none of them is, the first element of `available`; if
\* `available` is empty, "npm".
C12_PriorityFallback ==
    ( /\ PreferredReturned
      /\ Selectable(call.args.here, call.args.available) = {}
      /\ Selectable(call.args.parent, call.args.available) = {} )
    => LET avail == call.args.available IN
       IF InSeq("pnpm", avail) THEN call.result = "pnpm"
       ELSE IF InSeq("yarn", avail) THEN call.result = "yarn"
       ELSE IF InSeq("bun", avail) THEN call.result = "bun"
       ELSE IF InSeq("npm", avail) THEN call.result = "npm"
       ELSE IF Len(avail) > 0 THEN call.result = avail[1]
       ELSE call.result = "npm"

\* Only the lockfile of a manager that is not available exists; bun is
\* chosen although npm comes first in the list
C12_Witness ==
    /\ PreferredReturned
    /\ call.args.here = { "yarn.lock" }
    /\ call.args.parent = {}
    /\ call.args.available = << "npm", "deno", "bun" >>
    /\ call.result = "bun"

NoLockfileAtAll ==
    /\ PreferredReturned
    /\ call.args.here = {}
    /\ call.args.parent = {}
    /\ Len(call.args.available) > 0

AvailableReturned == call.fn = "isPackageManagerAvailable" /\ call.returned

\* C14: isPackageManagerAvailable(name) returns false without starting a
\* process for every name that is not a registered manager; for a
\* registered name it starts the check command and returns true exactly
\* when the process closes with status 0.
C14_UnknownNameStartsNothing ==
    AvailableReturned =>
        IF call.args.manager \in { "npm", "yarn", "pnpm", "bun" }
        THEN /\ call.result.spawned
             /\ call.result.value <=> call.args.outcome = "exit0"
        ELSE /\ ~call.result.spawned
             /\ ~call.result.value

\* The probes of detectAvailablePackageManagers, in the order they ended
Probes == SelectSeq(log, LAMBDA e : e.ev = "probe:pm")

\* C15: detectAvailablePackageManagers probes the registered managers one
\* by one in registry order, each once and whatever the earlier probes
\* gave, and the list it builds holds exactly the managers whose probe
\* exited with status 0, in registry order.
C15_DetectProbesAllInOrder ==
    LET succeeded == SelectSeq(Probes, LAMBDA e : e.arg.outcome = "exit0") IN
    /\ Len(Probes) <= Len(RegistryOrder)
    /\ \A i \in DOMAIN Probes : Probes[i].arg.manager = RegistryOrder[i]
    /\ probed = Len(RegistryOrder) => Len(Probes) = Len(RegistryOrder)
    /\ Logged("install") => Len(Probes) = Len(RegistryOrder)
    /\ available = [i \in DOMAIN succeeded |-> succeeded[i].arg.manager]

\* All four were probed although yarn failed to spawn and bun exited with
\* another status
C15_Witness ==
    /\ probed = Len(RegistryOrder)
    /\ Len(Probes) = Len(RegistryOrder)
    /\ Probes[2].arg.outcome = "spawnError"
    /\ Probes[4].arg.outcome = "exit1"
    /\ available = << "npm", "pnpm" >>

\* ------------------------------------------------------------------------
\* Properties of validateProjectName (under SpecFn, C17 under SpecAll)
\* ------------------------------------------------------------------------

\* validateProjectName has returned for a string argument
NameReturned ==
    /\ call.fn = "validateProjectName"
    /\ call.returned
    /\ call.args.name.t = "string"

Alphanumeric == Lower \cup Upper \cup Digit

\* Starts with a letter or digit and consists of letters, digits,
\* underscore, dot and hyphen
PlainForm(s) ==
    /\ Len(s) >= 1
    /\ s[1] \in Alphanumeric
    /\ \A i \in DOMAIN s : s[i] \in Alphanumeric \cup { "_", ".", "-" }

\* C16: validateProjectName returns { valid: true }, without an error
\* field, for every string that starts with a letter or digit, consists of
\* letters, digits, underscore, dot and hyphen, has at most 214 characters
\* and is not a reserved name in any case.
C16_PlainNamesAreValid ==
    ( /\ NameReturned
      /\ PlainForm(call.args.name.s)
      /\ Len(call.args.name.s) <= 214
      /\ ToLowerCase(call.args.name.s) \notin RESERVED_NAMES )
    => /\ call.result.valid
       /\ DOMAIN call.result = { "valid" }

\* A name with an upper-case first letter, a dot and an underscore
C16_Witness ==
    /\ NameReturned
    /\ call.args.name.s = << "A", ".", "_" >>
    /\ call.result.valid

HasForbiddenCharacter(s) ==
    \E i \in DOMAIN s : s[i] \in { "~", ")", "(", "'", "!", "*" }

\* C17: validateProjectName returns invalid for every string that contains
\* one of ~ ) ( ' ! *, scoped or not; a run of the command line with such a
\* name ends with exit code 1.
C17_ForbiddenCharactersRejected ==
    /\ (NameReturned /\ HasForbiddenCharacter(call.args.name.s))
          => ~call.result.valid
    /\ (pc = "exited" /\ HasForbiddenCharacter(argv.name))
          => exitCode = 1

\* A scoped name whose scope holds a tilde
C17_Witness ==
    /\ NameReturned
    /\ call.args.name.s = << "@", "a", "~", "/", "a" >>
    /\ ~call.result.valid

\* C18: every reserved name, in lower case, in upper case or with a
\* capital, is invalid with the reserved-name error; a well-formed scoped
\* name made of a reserved word is valid.
C18_ReservedNamesRejected ==
    /\ (NameReturned /\ call.args.name.s \in ReservedVariants)
          => /\ ~call.result.valid
             /\ call.result.error = "is a reserved name and cannot be used"
    /\ (NameReturned /\ call.args.name.s \in ScopedReserved)
          => call.result.valid

\* REACT is rejected as reserved
C18_Witness ==
    /\ NameReturned
    /\ call.args.name.s = << "R", "E", "A", "C", "T" >>
    /\ ~call.result.valid
    /\ call.result.error = "is a reserved name and cannot be used"

\* A segment of a scoped name as the validator accepts it: not empty, a
\* lowercase letter, digit or hyphen first, then also dots and underscores
AcceptedSegment(s) ==
    /\ Len(s) >= 1
    /\ s[1] \in Lower \cup Digit \cup { "-" }
    /\ \A i \in DOMAIN s : s[i] \in Lower \cup Digit \cup { "-", ".", "_" }

\* @scope/name with two accepted segments
AcceptedScopedForm(s) ==
    /\ Len(s) >= 1
    /\ s[1] = "@"
    /\ \E k \in 2..Len(s) :
          /\ s[k] = "/"
          /\ AcceptedSegment(SubSeq(s, 2, k - 1))
          /\ AcceptedSegment(SubSeq(s, k + 1, Len(s)))

\* C19: every name of more than 214 characters is invalid, with the error
\* about 214 characters unless it is whitespace only; a name of exactly 214
\* allowed characters that breaks no other rule is valid.
C19_LengthLimitInclusive ==
    /\ (NameReturned /\ Len(call.args.name.s) > 214)
          => /\ ~call.result.valid
             /\ (\E i \in DOMAIN call.args.name.s :
                    call.args.name.s[i] \notin Whitespace)
                   => call.result.error
                         = "Project name must be less than 214 characters"
    /\ ( /\ NameReturned
         /\ Len(call.args.name.s) = 214
         /\ \/ /\ PlainForm(call.args.name.s)
               /\ ToLowerCase(call.args.name.s) \notin RESERVED_NAMES
            \/ AcceptedScopedForm(call.args.name.s) )
          => call.result.valid

\* 214 times the letter a
C19_Witness ==
    /\ NameReturned
    /\ Len(call.args.name.s) = 214
    /\ \A i \in DOMAIN call.args.name.s : call.args.name.s[i] = "a"
    /\ call.result.valid

\* A segment as C20 states it: not empty, of lowercase letters, digits,
\* hyphen, dot, tilde and underscore
StatedSegment(s) ==
    /\ Len(s) >= 1
    /\ \A i \in DOMAIN s : s[i] \in Lower \cup Digit \cup { "-", ".", "~", "_" }

StatedScopedForm(s) ==
    \E k \in 2..Len(s) :
       /\ s[k] = "/"
       /\ StatedSegment(SubSeq(s, 2, k - 1))
       /\ StatedSegment(SubSeq(s, k + 1, Len(s)))

ScopedReturned == NameReturned /\ StartsWith(call.args.name.s, "@")

\* C20 as stated: a name starting with @ is valid if and only if it is
\* @scope/name with both segments non-empty and made of lowercase letters,
\* digits, hyphen, dot, tilde and underscore.
C20_ScopedValidIffStatedForm ==
    ScopedReturned =>
        (call.result.valid <=> StatedScopedForm(call.args.name.s))

\* C20, amended: a name starting with @ is valid if and only if it has at
\* most 214 characters and is @scope/name where both segments are not
\* empty, start with a lowercase letter, digit or hyphen and go on with
\* lowercase letters, digits, hyphen, dot and underscore; a tilde anywhere
\* makes it invalid; @scope/package-name is valid, @/invalid is not.
C20_ScopedValidIffAcceptedForm ==
    ScopedReturned =>
        /\ call.result.valid
              <=> ( /\ Len(call.args.name.s) <= 214
                    /\ AcceptedScopedForm(call.args.name.s) )
        /\ call.args.name.s = <<"@","s","c","o","p","e","/">>
                \o <<"p","a","c","k","a","g","e","-","n","a","m","e">>
              => call.result.valid
        /\ call.args.name.s = <<"@","/","i","n","v","a","l","i","d">>
              => ~call.result.valid

\* A scope that starts with a dot is rejected
C20_Witness ==
    /\ ScopedReturned
    /\ call.args.name.s = << "@", ".", "a", "/", "a" >>
    /\ ~call.result.valid

\* ------------------------------------------------------------------------
\* Properties of the validators' results and of validateTargetDirectory
\* (under SpecFn)
\* ------------------------------------------------------------------------

\* C21: validateProjectName returns for every argument, also for null,
\* undefined, other non-strings and the empty string; every result of
\* validateProjectName and of validateTargetDirectory carries a non-empty
\* error when valid is false and no error field when valid is true.
C21_TotalAndWellFormed ==
    /\ (call.fn = "validateProjectName" /\ ~call.returned)
          => ENABLED ValidateProjectName
    /\ ( /\ call.fn \in { "validateProjectName", "validateTargetDirectory" }
         /\ call.returned )
          => IF call.result.valid
             THEN "error" \notin DOMAIN call.result
             ELSE /\ "error" \in DOMAIN call.result
                  /\ call.result.error # ""

\* null is rejected with an error and without an exception
C21_Witness ==
    /\ call.fn = "validateProjectName"
    /\ call.returned
    /\ call.args.name = [t |-> "null"]
    /\ ~call.result.valid
    /\ call.result.error = "Project name is required"

TargetReturned == call.fn = "validateTargetDirectory" /\ call.returned

\* path.resolve of the argument of the call
ResolvedTarget == resolve(Cwd, call.args.path)

SystemDirectoryError ==
    "Cannot create project in system directory or unsafe location"

\* No segment of p holds two dots in a row or a tilde
NoSuspiciousPattern(p) ==
    \A i \in DOMAIN p :
       /\ ~Includes(p[i], << ".", "." >>)
       /\ ~Includes(p[i], << "~" >>)

\* C22: a path that resolves to a protected path (root, home, the working
\* directory, /usr, /etc, /var and the other system directories) is invalid
\* with the system-directory error; a path strictly below a protected path
\* is not rejected with that error unless it holds a suspicious pattern.
C22_ProtectedPathsExactMatch ==
    TargetReturned =>
        /\ ResolvedTarget \in systemPaths
              => /\ ~call.result.valid
                 /\ call.result.error = SystemDirectoryError
        /\ ( /\ ResolvedTarget \notin systemPaths
             /\ NoSuspiciousPattern(ResolvedTarget) )
              => \/ call.result.valid
                 \/ call.result.error # SystemDirectoryError

\* /etc/ resolves to /etc and is rejected
C22_Witness ==
    /\ TargetReturned
    /\ call.args.path = << "/", "e", "t", "c", "/" >>
    /\ ~call.result.valid
    /\ call.result.error = SystemDirectoryError

\* The argument holds a segment ".."
HasTraversalSegment(s) ==
    \E i \in DOMAIN Split(s) : Split(s)[i] = << ".", "." >>

HasTilde(s) == \E i \in DOMAIN s : s[i] = "~"

\* C23: validateTargetDirectory returns invalid for every argument that
\* holds a parent-traversal segment (..) or a tilde.
C23_TraversalAndTildeRejected ==
    ( /\ TargetReturned
      /\ HasTraversalSegment(call.args.path) \/ HasTilde(call.args.path) )
    => ~call.result.valid

\* The resolved target has an entry: a file, or a directory directly below
TargetHasEntries ==
    /\ ResolvedTarget \in DOMAIN fs
    /\ \/ fs[ResolvedTarget] # {}
       \/ \E q \in DOMAIN fs :
             /\ Len(q) = Len(ResolvedTarget) + 1
             /\ IsPrefix(ResolvedTarget, q)

\* C24: for a path that passes the safety check, whose parent is writable
\* and which can be read, validateTargetDirectory returns valid = true;
\* the warnings hold the one warning "not empty" exactly when the resolved
\* path exists with at least one entry, and are empty when it does not
\* exist or is an empty directory.
C24_WarnsIffNotEmpty ==
    ( /\ TargetReturned
      /\ isSafeToRemove(ResolvedTarget)
      /\ dirname(ResolvedTarget) \in DOMAIN fs
      /\ dirname(ResolvedTarget) \notin unwritable
      /\ ResolvedTarget \notin unreadable )
    => /\ call.result.valid
       /\ IF TargetHasEntries
          THEN call.result.warnings = << "is not empty" >>
          ELSE call.result.warnings = << >>

\* An existing directory with a file in it: valid, with the warning
C24_Witness ==
    /\ TargetReturned
    /\ call.args.path = << "a" >>
    /\ ResolvedTarget \in DOMAIN fs
    /\ fs[ResolvedTarget] # {}
    /\ call.result.valid
    /\ call.result.warnings = << "is not empty" >>

\* ------------------------------------------------------------------------
\* Properties of formatErrorMessage and handleError (under SpecFn)
\* ------------------------------------------------------------------------

FormatReturned == call.fn = "formatErrorMessage" /\ call.returned

\* The lines between the header and the support pointer
Remediation == SubSeq(call.result, 2, Len(call.result) - 1)

\* The first bullet of each kind that has suggestions
FirstBulletOf(type) ==
    CASE type = "NETWORK" -> << "Check your internet connection" >>
      [] type = "PACKAGE_MANAGER" ->
            << "Try using a different package manager with --pm flag" >>
      [] type = "FILESYSTEM" -> << "Check file permissions" >>
      [] type = "VALIDATION" ->
            << "Use only letters, numbers, hyphens, and underscores" >>

\* The line "<manager> cache clean --force" is among the lines
CacheCleanLine(lines, manager) ==
    \E i \in DOMAIN lines :
       /\ lines[i].part = "bullet"
       /\ lines[i].text = << "Try: ", manager, " cache clean --force" >>

\* C25: the formatted message is a header with the error message, then the
\* suggestions of the kind (Network, PackageManager, Filesystem and
\* Validation have their own three bullets; Template, Unknown and errors
\* that are not a BoilerplateError have none), then the support pointer;
\* the cache-clean line of a PackageManager error is there exactly when
\* context.manager is present, and names that manager.
C25_MessageStructure ==
    FormatReturned =>
        LET e == call.args.error
            n == Len(call.result)
            kinds == { "NETWORK", "PACKAGE_MANAGER", "FILESYSTEM", "VALIDATION" }
            cacheClean == /\ e.boilerplate
                          /\ e.type = "PACKAGE_MANAGER"
                          /\ "manager" \in e.context
        IN  /\ n >= 2
            /\ call.result[1].part = "header"
            /\ \E i \in DOMAIN call.result[1].text :
                  call.result[1].text[i] = e.message
            /\ call.result[n].part = "support"
            /\ \A i \in 2..(n - 1) :
                  call.result[i].part \in { "suggestions", "bullet" }
            /\ IF e.boilerplate /\ e.type \in kinds
               THEN /\ Len(Remediation) = (IF cacheClean THEN 5 ELSE 4)
                    /\ Remediation[1].part = "suggestions"
                    /\ Remediation[2].text = FirstBulletOf(e.type)
               ELSE Remediation = << >>
            /\ (\E m \in { "", "npm", "yarn" } : CacheCleanLine(call.result, m))
                  <=> cacheClean
            /\ cacheClean => CacheCleanLine(call.result, e.manager)

\* A PackageManager error with context.manager = "npm"
C25_Witness ==
    /\ FormatReturned
    /\ call.args.error.boilerplate
    /\ call.args.error.type = "PACKAGE_MANAGER"
    /\ call.args.error.manager = "npm"
    /\ CacheCleanLine(call.result, "npm")

HandleReturned == call.fn = "handleError" /\ call.returned

Printed(e) == \E i \in DOMAIN call.result : call.result[i].ev = e

\* C26 as stated: the formatted message is always printed; the stack trace
\* and the error context are printed only in verbose mode.
C26_StackAndContextOnlyVerbose ==
    HandleReturned =>
        /\ Printed("print:error")
        /\ Printed("print:stack") => call.args.verbose
        /\ Printed("print:context") => call.args.verbose

\* C26, amended: the formatted message is always printed; the stack trace
\* is printed only in verbose mode; the error context is printed whenever
\* it is not empty, in verbose and in non-verbose mode alike.
C26_StackOnlyVerboseContextAlways ==
    HandleReturned =>
        /\ Printed("print:error")
        /\ Printed("print:stack")
              <=> (call.args.verbose /\ call.args.error.stack)
        /\ Printed("print:context") <=> call.args.error.context # {}

\* Without verbose the context is printed and the stack is not
C26_Witness ==
    /\ HandleReturned
    /\ ~call.args.verbose
    /\ call.args.error.stack
    /\ call.args.error.context = { "manager" }
    /\ Printed("print:context")
    /\ ~Printed("print:stack")

\* ------------------------------------------------------------------------
\* Properties of the command line: removals, rollback and installation
\* (checked under Spec)
\* ------------------------------------------------------------------------

\* The paths handed to fs.remove during the run, by the overwrite step or by
\* the rollback action registered in program.action
RemovedPaths ==
    { log[i].arg : i \in { j \in DOMAIN log :
                             log[j].ev \in { "remove", "rollback:remove" } } }

\* C27 (as claimed): whatever the project-name argument, no path handed to a
\* recursive remove, by the overwrite step or by the rollback action, is
\* the current directory, the home directory, the root or another protected
\* path of isSafeToRemove.
C27_NeverRemovesProtectedPath ==
    \A p \in RemovedPaths : p \notin systemPaths /\ isSafeToRemove(p)

\* The run failed after the target directory, which existed before the run,
\* had been validated: the overwrite was accepted, at the prompt or by --yes
FailedAfterAcceptedOverwrite ==
    /\ pc = "exited"
    /\ exitCode = 1
    /\ Logged("dir-valid")
    /\ existsSync(fs0, projectPath)
    /\ argv.yes \/ OperatorAccepted

Outside(f, p) == { q \in DOMAIN f : ~IsPrefix(p, q) }

InstallManagers ==
    { log[i].arg : i \in { j \in DOMAIN log : log[j].ev = "install" } }

\* The detection has ended and --pm names a manager that was not detected
RequestedNotDetected ==
    /\ Logged("probe:pm")
    /\ pc # "probe"
    /\ argv.pm # "null"
    /\ ~InSeq(argv.pm, available)

\* A --pm value that was not detected raises a PackageManager error before
\* the project directory is created and before any installation
RequestedNotDetectedFails ==
    RequestedNotDetected =>
        /\ error.type = "PACKAGE_MANAGER"
        /\ error.context = { "requested", "available" }
        /\ ~Logged("ensureDir")
        /\ ~Logged("install")

\* C29 (as claimed): the manager an installation is started with is one of
\* the detected managers; a --pm value outside the detected list raises a
\* PackageManager error before the project directory is created.
C29_InstallsWithDetectedManager ==
    /\ \A m \in InstallManagers : InSeq(m, available)
    /\ RequestedNotDetectedFails

\* C29 (amended): the manager an installation is started with is one of the
\* detected managers, or it is npm when no manager was detected at all; a
\* --pm value outside the detected list raises a PackageManager error before
\* the project directory is created.
C29_InstallsWithDetectedManagerOrNpm ==
    /\ \A m \in InstallManagers :
          IF available = << >> THEN m = "npm" ELSE InSeq(m, available)
    /\ RequestedNotDetectedFails

C29_Witness ==
    /\ argv.pm = "null"
    /\ Len(available) >= 2
    /\ InstallManagers # {}
    /\ InstallManagers \cap { "npm" } = {}

\* ------------------------------------------------------------------------
\* The completed flag of the RollbackManager (checked under SpecRM)
\* ------------------------------------------------------------------------

\* The indices of the actions that were invoked
Invoked == { trace[j].idx : j \in { i \in DOMAIN trace : trace[i].ev = "start" } }

\* C30: the completed flag never goes back from true to false; a step that
\* registers an action changes neither the flag nor the actions registered
\* before; and once the flag is true with n actions registered, no action
\* registered later (at an index above n) is ever invoked, also when it was
\* registered while execute() was suspended in an earlier action.
C30_CompletedIsMonotone ==
    /\ [][completed => completed']_vars
    /\ [][Len(actions') > Len(actions) =>
            /\ completed' = completed
            /\ SubSeq(actions', 1, Len(actions)) = actions]_vars
    /\ \A n \in 0..(MaxActions + 1) :
          []((completed /\ Len(actions) = n)
                => [](\A i \in Invoked : i <= n))

C30_Witness ==
    \E c \in Callers :
        /\ completed
        /\ calls[c].pc = "done"
        /\ calls[c].n >= 1
        /\ Len(actions) > calls[c].n
        /\ Invoked = 1..calls[c].n

====
